---- MODULE Spec2Model ----
(***************************************************************************)
(* Model of the transformation engine of portainer_to_k8s.py: the pure     *)
(* functions sanitize_name, transform_env, build_volumes, collect_ports    *)
(* and build_k8s_documents, conversions running in several threads, and    *)
(* the PortainerClient that fetches what they convert.                     *)
(*                                                                         *)
(* op, arg and ret are the call in progress in the main thread, its        *)
(* arguments and its outcome.  heap holds the inspection documents handed  *)
(* to the conversion threads and frame the call frame of each thread.      *)
(* client is the PortainerClient object once constructed and sent the      *)
(* requests its session has issued, in order.  interleaved is a history    *)
(* variable: since the last call was joined, some thread has run a         *)
(* statement while the call of another thread was under way.               *)
(*                                                                         *)
(* A Python str is a sequence of one-character strings, so that lower(),   *)
(* re.sub, strip and split are computed and not assumed.  A Python value   *)
(* whose type the code does not fix (a dict entry) is a tagged record:     *)
(* PyNone, PyStr(s), PyList(l), PyBool(b), PyDict(d).  A dict is a         *)
(* function from its keys to values: a missing key is a key outside its    *)
(* DOMAIN.  A call either returns (Ok) or raises (Raise).                  *)
(***************************************************************************)
EXTENDS Integers, Sequences, FiniteSets, TLC

VARIABLES op, arg, ret, heap, frame, client, sent, interleaved

vars == <<op, arg, ret, heap, frame, client, sent, interleaved>>

(***************************************************************************)
(* Bounds of the checked input spaces.                                     *)
(***************************************************************************)
MaxLen == 4

MaxEnvLen == 3

MaxEnv == 2

MaxMounts == 2

MaxPorts == 2

\* The number of threads that run a conversion at the same time.
MaxThreads == 2

\* The number of containers in the listing of an endpoint.
MaxContainers == 2

(***************************************************************************)
(* Python values.                                                          *)
(***************************************************************************)
PyNone == [t |-> "None"]

PyStr(s) == [t |-> "str", v |-> s]

PyList(l) == [t |-> "list", v |-> l]

PyBool(b) == [t |-> "bool", v |-> b]

PyDict(d) == [t |-> "dict", v |-> d]

EmptyDict == [k \in {} |-> PyNone]

\* bool(v): None, "", [], {} and False are falsy.
Truthy(v) ==
    CASE v.t = "None" -> FALSE
      [] v.t = "bool" -> v.v
      [] v.t = "dict" -> DOMAIN v.v # {}
      [] OTHER -> v.v # <<>>

\* d.get(k, default) on a dict d.
Get(d, k, default) == IF k \in DOMAIN d THEN d[k] ELSE default

\* a or b
Or(a, b) == IF Truthy(a) THEN a ELSE b

Ok(v) == [status |-> "ok", value |-> v]

Raise(e) == [status |-> "raise", exc |-> e]

(***************************************************************************)
(* Characters and strings.                                                 *)
(***************************************************************************)
UpperSeq == <<"A", "B", "C", "D", "E", "F", "G", "H", "I", "J", "K", "L", "M",
              "N", "O", "P", "Q", "R", "S", "T", "U", "V", "W", "X", "Y", "Z">>

LowerSeq == <<"a", "b", "c", "d", "e", "f", "g", "h", "i", "j", "k", "l", "m",
              "n", "o", "p", "q", "r", "s", "t", "u", "v", "w", "x", "y", "z">>

DigitSeq == <<"0", "1", "2", "3", "4", "5", "6", "7", "8", "9">>

Range(s) == {s[i] : i \in 1..Len(s)}

IndexOf(s, c) == CHOOSE i \in 1..Len(s) : s[i] = c

\* str.lower() and str.upper() on one character.
LowerChar(c) == IF c \in Range(UpperSeq) THEN LowerSeq[IndexOf(UpperSeq, c)] ELSE c

UpperChar(c) == IF c \in Range(LowerSeq) THEN UpperSeq[IndexOf(LowerSeq, c)] ELSE c

Lower(s) == [i \in 1..Len(s) |-> LowerChar(s[i])]

Upper(s) == [i \in 1..Len(s) |-> UpperChar(s[i])]

\* The character class [a-z0-9-] of the pattern in sanitize_name.
NameChar(c) == c \in Range(LowerSeq) \cup Range(DigitSeq) \cup {"-"}

StringsUpTo(A, n) == UNION {[1..k -> A] : k \in 0..n}

s_container == <<"c", "o", "n", "t", "a", "i", "n", "e", "r">>

(***************************************************************************)
(* sanitize_name                                                           *)
(***************************************************************************)
RECURSIVE SkipRun(_)
\* The rest of s after the maximal run of characters outside [a-z0-9-] at its head.
SkipRun(s) ==
    IF s = <<>> \/ NameChar(Head(s)) THEN s ELSE SkipRun(Tail(s))

RECURSIVE SubEach(_)
\* re.sub(r"[^a-z0-9-]", "-", s): the pattern without its "+".
SubEach(s) ==
    IF s = <<>> THEN <<>>
    ELSE <<IF NameChar(Head(s)) THEN Head(s) ELSE "-">> \o SubEach(Tail(s))

RECURSIVE SubRuns(_)
SubRuns(s) ==
    IF s = <<>> THEN <<>>
    ELSE IF NameChar(Head(s)) THEN <<Head(s)>> \o SubRuns(Tail(s))
    ELSE <<"-">> \o SubRuns(SkipRun(s))

\* re.sub(r"[^a-z0-9-]+", "-", s)
ReSub(s) == SubRuns(s)

RECURSIVE LStrip(_, _)
LStrip(s, c) == IF s # <<>> /\ Head(s) = c THEN LStrip(Tail(s), c) ELSE s

RECURSIVE RStrip(_, _)
RStrip(s, c) ==
    IF s # <<>> /\ s[Len(s)] = c THEN RStrip(SubSeq(s, 1, Len(s) - 1), c) ELSE s

\* Removes at most one "-" from each end.
StripOne(s) ==
    LET l == IF s # <<>> /\ Head(s) = "-" THEN Tail(s) ELSE s
    IN  IF l # <<>> /\ l[Len(l)] = "-" THEN SubSeq(l, 1, Len(l) - 1) ELSE l

\* Leaves the dashes at the ends.
StripNone(s) == s

\* s.strip("-")
StripDash(s) == RStrip(LStrip(s, "-"), "-")

SanitizeName(name) ==
    LET n == StripDash(ReSub(Lower(name)))
    IN  IF n # <<>> THEN n ELSE s_container

(***************************************************************************)
(* transform_env                                                           *)
(***************************************************************************)
RECURSIVE Find(_, _, _)
\* s.find(c) from position i on (1-based); 0 when c does not occur.
Find(s, c, i) ==
    IF i > Len(s) THEN 0 ELSE IF s[i] = c THEN i ELSE Find(s, c, i + 1)

RECURSIVE RFind(_, _, _)
\* s.rfind(c) from position i down; 0 when c does not occur.
RFind(s, c, i) ==
    IF i < 1 THEN 0 ELSE IF s[i] = c THEN i ELSE RFind(s, c, i - 1)

\* item.rsplit("=", 1): the split at the last "=".
SplitLast(item) ==
    LET i == RFind(item, "=", Len(item))
    IN  <<SubSeq(item, 1, i - 1), SubSeq(item, i + 1, Len(item))>>

\* item.split("=", 1) for an item that holds a "=".
SplitFirst(item) ==
    LET i == Find(item, "=", 1)
    IN  <<SubSeq(item, 1, i - 1), SubSeq(item, i + 1, Len(item))>>

EnvEntry(item) ==
    IF Find(item, "=", 1) # 0
    THEN [name |-> SplitFirst(item)[1], value |-> SplitFirst(item)[2]]
    ELSE [name |-> item, value |-> <<>>]

TransformEnv(env_list) == [k \in 1..Len(env_list) |-> EnvEntry(env_list[k])]

(***************************************************************************)
(* build_volumes                                                           *)
(***************************************************************************)
s_vol == <<"v", "o", "l", "-">>

s_data == <<"/", "d", "a", "t", "a">>

s_bind == <<"b", "i", "n", "d">>

s_Directory == <<"D", "i", "r", "e", "c", "t", "o", "r", "y">>

s_DirectoryOrCreate == s_Directory \o <<"O", "r", "C", "r", "e", "a", "t", "e">>

RECURSIVE IntToStr(_)
\* str(n) for n >= 0.
IntToStr(n) ==
    IF n < 10 THEN <<DigitSeq[n + 1]>>
    ELSE IntToStr(n \div 10) \o <<DigitSeq[(n % 10) + 1]>>

\* f"vol-{index}"
VolIndex(index) == s_vol \o IntToStr(index)

\* The name the mount at position index (0-based) gets: line 111.
MountName(mount, index) ==
    SanitizeName(
        Or(Get(mount, "Name", PyNone),
           Or(Get(mount, "Source", PyNone), PyStr(VolIndex(index)))).v)

\* Reads "not mount.get('RW')": a mount without RW is read-only too.
VolumeMountUnlessRW(mount, index) ==
    LET base == [name |-> MountName(mount, index),
                 mountPath |-> Get(mount, "Destination", PyStr(s_data))]
    IN  IF ~Truthy(Get(mount, "RW", PyNone))
           \/ Truthy(Get(mount, "ReadOnly", PyNone))
        THEN base @@ [readOnly |-> TRUE]
        ELSE base

\* The volumeMounts entry of a mount: lines 112-115.
VolumeMount(mount, index) ==
    LET base == [name |-> MountName(mount, index),
                 mountPath |-> Get(mount, "Destination", PyStr(s_data))]
    IN  IF Get(mount, "RW", PyNone) = PyBool(FALSE)
           \/ Truthy(Get(mount, "ReadOnly", PyNone))
        THEN base @@ [readOnly |-> TRUE]
        ELSE base

\* Takes the Propagation key being there, empty or not, for the setting.
VolumeDefsPropagationKey(mount, index) ==
    IF Get(mount, "Type", PyNone) = PyStr(s_bind)
    THEN LET source_path == Get(mount, "Source", PyNone)
         IN  IF ~Truthy(source_path) THEN <<>>
             ELSE <<[name |-> MountName(mount, index),
                     hostPath |->
                        [path |-> source_path,
                         type |-> IF "Propagation" \in DOMAIN mount
                                  THEN s_DirectoryOrCreate ELSE s_Directory]]>>
    ELSE <<[name |-> MountName(mount, index),
            persistentVolumeClaim |-> [claimName |-> MountName(mount, index)]]>>

\* Names the claim by the mount's name as given, not sanitized.
VolumeDefsRawClaim(mount, index) ==
    IF Get(mount, "Type", PyNone) = PyStr(s_bind)
    THEN LET source_path == Get(mount, "Source", PyNone)
         IN  IF ~Truthy(source_path) THEN <<>>
             ELSE <<[name |-> MountName(mount, index),
                     hostPath |->
                        [path |-> source_path,
                         type |-> IF Truthy(Get(mount, "Propagation", PyNone))
                                  THEN s_DirectoryOrCreate ELSE s_Directory]]>>
    ELSE <<[name |-> MountName(mount, index),
            persistentVolumeClaim |->
                [claimName |->
                    Or(Get(mount, "Name", PyNone),
                       Or(Get(mount, "Source", PyNone), PyStr(VolIndex(index)))).v]]>>

\* The volumes entries of a mount, none or one: lines 117-138.
VolumeDefs(mount, index) ==
    IF Get(mount, "Type", PyNone) = PyStr(s_bind)
    THEN LET source_path == Get(mount, "Source", PyNone)
         IN  IF ~Truthy(source_path) THEN <<>>
             ELSE <<[name |-> MountName(mount, index),
                     hostPath |->
                        [path |-> source_path,
                         type |-> IF Truthy(Get(mount, "Propagation", PyNone))
                                  THEN s_DirectoryOrCreate ELSE s_Directory]]>>
    ELSE <<[name |-> MountName(mount, index),
            persistentVolumeClaim |-> [claimName |-> MountName(mount, index)]]>>

RECURSIVE VolumeDefsReversed(_, _)
\* Puts each volume in front of the ones before it (insert(0, ...) for append).
VolumeDefsReversed(mounts, i) ==
    IF i > Len(mounts) THEN <<>>
    ELSE VolumeDefsReversed(mounts, i + 1) \o VolumeDefs(mounts[i], i - 1)

RECURSIVE VolumeDefsFrom(_, _)
\* volume_defs after the loop has run over the mounts from position i on.
VolumeDefsFrom(mounts, i) ==
    IF i > Len(mounts) THEN <<>>
    ELSE VolumeDefs(mounts[i], i - 1) \o VolumeDefsFrom(mounts, i + 1)

BuildVolumes(mounts) ==
    [volumes |-> VolumeDefsFrom(mounts, 1),
     volume_mounts |-> [i \in 1..Len(mounts) |-> VolumeMount(mounts[i], i - 1)]]

(***************************************************************************)
(* collect_ports                                                           *)
(*                                                                         *)
(* The exposure map is a dict in insertion order: PyItems of the sequence  *)
(* of its items [key, bindings], the keys distinct.                        *)
(***************************************************************************)
PyItems(items) == [t |-> "items", v |-> items]

s_port == <<"p", "o", "r", "t", "-">>

RECURSIVE Split(_, _)
\* s.split(c): the parts of s between the occurrences of c.
Split(s, c) ==
    LET i == Find(s, c, 1)
    IN  IF i = 0 THEN <<s>>
        ELSE <<SubSeq(s, 1, i - 1)>> \o Split(SubSeq(s, i + 1, Len(s)), c)

RECURSIVE DigitsValue(_)
\* The number the digits of s spell, its underscores skipped.
DigitsValue(s) ==
    IF s = <<>> THEN 0
    ELSE IF s[Len(s)] = "_" THEN DigitsValue(SubSeq(s, 1, Len(s) - 1))
    ELSE 10 * DigitsValue(SubSeq(s, 1, Len(s) - 1)) + (IndexOf(DigitSeq, s[Len(s)]) - 1)

\* int(s) on a str: spaces around, a sign, digits with single underscores
\* between them; anything else is a ValueError.
ParseInt(s) ==
    LET t == RStrip(LStrip(s, " "), " ")
        signed == t # <<>> /\ Head(t) \in {"+", "-"}
        body == IF signed THEN Tail(t) ELSE t
        valid ==
            /\ body # <<>>
            /\ \A i \in 1..Len(body) : body[i] \in Range(DigitSeq) \cup {"_"}
            /\ body[1] # "_" /\ body[Len(body)] # "_"
            /\ \A i \in 1..(Len(body) - 1) : ~(body[i] = "_" /\ body[i + 1] = "_")
    IN  IF ~valid THEN Raise("ValueError")
        ELSE Ok(IF signed /\ Head(t) = "-" THEN 0 - DigitsValue(body) ELSE DigitsValue(body))

\* Reads the HostPort of the last binding of the list, not of the first.
HostPortOfLast(bindings, container_port) ==
    IF ~Truthy(bindings) THEN Ok(container_port)
    ELSE LET binding == bindings.v[Len(bindings.v)]
         IN  IF Truthy(Get(binding, "HostPort", PyNone))
             THEN ParseInt(binding["HostPort"].v)
             ELSE Ok(container_port)

\* Lines 159-162: the port of the entry, overridden by the first binding's HostPort.
HostPort(bindings, container_port) ==
    IF ~Truthy(bindings) THEN Ok(container_port)
    ELSE LET binding == bindings.v[1]
         IN  IF Truthy(Get(binding, "HostPort", PyNone))
             THEN ParseInt(binding["HostPort"].v)
             ELSE Ok(container_port)

\* Overrides targetPort with the host port too.
PortEntryTargetsHostPort(container_port, protocol, bindings) ==
    LET target == ParseInt(container_port)
        port == IF target.status = "ok" THEN HostPort(bindings, target.value) ELSE target
    IN  IF target.status # "ok" THEN target
        ELSE IF port.status # "ok" THEN port
        ELSE Ok([name |-> s_port \o container_port \o <<"-">> \o protocol,
                 port |-> port.value,
                 targetPort |-> port.value,
                 protocol |-> Upper(protocol)])

\* Lines 153-163 for one well-formed key: the entry, or the error of int().
PortEntry(container_port, protocol, bindings) ==
    LET target == ParseInt(container_port)
        port == IF target.status = "ok" THEN HostPort(bindings, target.value) ELSE target
    IN  IF target.status # "ok" THEN target
        ELSE IF port.status # "ok" THEN port
        ELSE Ok([name |-> s_port \o container_port \o <<"-">> \o protocol,
                 port |-> port.value,
                 targetPort |-> target.value,
                 protocol |-> Upper(protocol)])

RECURSIVE CollectFrom(_, _, _)
\* The loop of lines 148-163 from item i on, ports being the entries so far.
CollectFrom(items, i, ports) ==
    IF i > Len(items) THEN Ok(ports)
    ELSE LET parts == Split(items[i].key, "/")
         IN  IF Len(parts) # 2 THEN CollectFrom(items, i + 1, ports)
             ELSE LET entry == PortEntry(parts[1], parts[2], items[i].bindings)
                  IN  IF entry.status # "ok" THEN entry
                      ELSE CollectFrom(items, i + 1, Append(ports, entry.value))

CollectPorts(port_map) ==
    IF ~Truthy(port_map) THEN Ok(<<>>) ELSE CollectFrom(port_map.v, 1, <<>>)

(***************************************************************************)
(* build_k8s_documents                                                     *)
(***************************************************************************)
s_app == <<"a", "p", "p">>

s_svc == <<"-", "s", "v", "c">>

s_image_latest == <<"i", "m", "a", "g", "e", ":", "l", "a", "t", "e", "s", "t">>

\* A Service is emitted whatever the ports.
ServiceAlways(ports) == TRUE

\* Lines 190 and 213: "if ports:".
HasPorts(ports) == ports # <<>>

\* Emits the env key whatever the list.
ContainerSpecAlwaysEnv(container_name, image, config, env_vars, mounts, ports) ==
    [name |-> container_name, image |-> image, env |-> env_vars]
    @@ (IF Truthy(Get(config, "Cmd", PyNone)) THEN [args |-> config["Cmd"]] ELSE EmptyDict)
    @@ (IF Truthy(Get(config, "Entrypoint", PyNone))
        THEN [command |-> config["Entrypoint"]] ELSE EmptyDict)
    @@ (IF mounts.volume_mounts # <<>>
        THEN [volumeMounts |-> mounts.volume_mounts] ELSE EmptyDict)
    @@ (IF ports # <<>>
        THEN [ports |-> [i \in 1..Len(ports) |->
                            [containerPort |-> ports[i].targetPort,
                             protocol |-> ports[i].protocol]]]
        ELSE EmptyDict)

\* Lines 178-193.
ContainerSpec(container_name, image, config, env_vars, mounts, ports) ==
    [name |-> container_name, image |-> image]
    @@ (IF Truthy(Get(config, "Cmd", PyNone)) THEN [args |-> config["Cmd"]] ELSE EmptyDict)
    @@ (IF Truthy(Get(config, "Entrypoint", PyNone))
        THEN [command |-> config["Entrypoint"]] ELSE EmptyDict)
    @@ (IF env_vars # <<>> THEN [env |-> env_vars] ELSE EmptyDict)
    @@ (IF mounts.volume_mounts # <<>>
        THEN [volumeMounts |-> mounts.volume_mounts] ELSE EmptyDict)
    @@ (IF ports # <<>>
        THEN [ports |-> [i \in 1..Len(ports) |->
                            [containerPort |-> ports[i].targetPort,
                             protocol |-> ports[i].protocol]]]
        ELSE EmptyDict)

\* Labels the pod template "app", not with the container name.
DeploymentLabelledApp(container_name, namespace, container_spec, mounts) ==
    [apiVersion |-> "apps/v1",
     kind |-> "Deployment",
     metadata |-> [name |-> container_name, namespace |-> namespace],
     spec |->
        [replicas |-> 1,
         selector |-> [matchLabels |-> [app |-> container_name]],
         template |->
            [metadata |-> [labels |-> [app |-> s_app]],
             spec |-> [containers |-> <<container_spec>>]
                      @@ (IF mounts.volumes # <<>>
                          THEN [volumes |-> mounts.volumes] ELSE EmptyDict)]]]

\* Lines 195-209.
Deployment(container_name, namespace, container_spec, mounts) ==
    [apiVersion |-> "apps/v1",
     kind |-> "Deployment",
     metadata |-> [name |-> container_name, namespace |-> namespace],
     spec |->
        [replicas |-> 1,
         selector |-> [matchLabels |-> [app |-> container_name]],
         template |->
            [metadata |-> [labels |-> [app |-> container_name]],
             spec |-> [containers |-> <<container_spec>>]
                      @@ (IF mounts.volumes # <<>>
                          THEN [volumes |-> mounts.volumes] ELSE EmptyDict)]]]

\* Puts the Service in the namespace "default", whatever the argument.
ServiceInDefault(container_name, namespace, ports) ==
    [apiVersion |-> "v1",
     kind |-> "Service",
     metadata |-> [name |-> container_name \o s_svc,
                   namespace |-> <<"d", "e", "f", "a", "u", "l", "t">>],
     spec |-> [selector |-> [app |-> container_name],
               ports |-> ports,
               type |-> "ClusterIP"]]

\* Lines 214-223.
Service(container_name, namespace, ports) ==
    [apiVersion |-> "v1",
     kind |-> "Service",
     metadata |-> [name |-> container_name \o s_svc, namespace |-> namespace],
     spec |-> [selector |-> [app |-> container_name],
               ports |-> ports,
               type |-> "ClusterIP"]]

\* Lines 178-226, once every section has been read.
Documents(container_name, namespace, image, config, env_vars, mounts, ports) ==
    LET container_spec == ContainerSpec(container_name, image, config, env_vars, mounts, ports)
        deployment == Deployment(container_name, namespace, container_spec, mounts)
    IN  IF HasPorts(ports)
        THEN <<deployment, Service(container_name, namespace, ports)>>
        ELSE <<deployment>>

\* Resolves the name from the top-level Name first and the Hostname second.
BuildK8sDocumentsNameFirst(container_details, namespace) ==
    LET config == Get(container_details, "Config", PyDict(EmptyDict))
    IN  IF config.t # "dict" THEN Raise("AttributeError")
    ELSE
    LET name == Or(Get(container_details, "Name", PyNone),
                   Get(config.v, "Hostname", PyStr(s_app)))
    IN  IF name.t # "str" THEN Raise("AttributeError")
    ELSE
    LET container_name == SanitizeName(name.v)
        image == Get(config.v, "Image", PyStr(s_image_latest))
        env_list == Get(config.v, "Env", PyList(<<>>))
    IN  IF env_list.t # "list" THEN Raise("TypeError")
    ELSE
    LET env_vars == TransformEnv(env_list.v)
        mount_list == Get(container_details, "Mounts", PyList(<<>>))
    IN  IF mount_list.t # "list" THEN Raise("TypeError")
    ELSE
    LET mounts == BuildVolumes(mount_list.v)
        network == Get(container_details, "NetworkSettings", PyDict(EmptyDict))
    IN  IF network.t # "dict" THEN Raise("AttributeError")
    ELSE
    LET ports == CollectPorts(Get(network.v, "Ports", PyNone))
    IN  IF ports.status # "ok" THEN ports
        ELSE Ok(Documents(container_name, namespace, image, config.v, env_vars,
                          mounts, ports.value))

\* Lines 171-176 raise where a section is not what the code calls a method
\* of: None.get, None.lower, a loop over None.
BuildK8sDocuments(container_details, namespace) ==
    LET config == Get(container_details, "Config", PyDict(EmptyDict))
    IN  IF config.t # "dict" THEN Raise("AttributeError")
    ELSE
    LET name == Or(Get(config.v, "Hostname", PyNone),
                   Get(container_details, "Name", PyStr(s_app)))
    IN  IF name.t # "str" THEN Raise("AttributeError")
    ELSE
    LET container_name == SanitizeName(name.v)
        image == Get(config.v, "Image", PyStr(s_image_latest))
        env_list == Get(config.v, "Env", PyList(<<>>))
    IN  IF env_list.t # "list" THEN Raise("TypeError")
    ELSE
    LET env_vars == TransformEnv(env_list.v)
        mount_list == Get(container_details, "Mounts", PyList(<<>>))
    IN  IF mount_list.t # "list" THEN Raise("TypeError")
    ELSE
    LET mounts == BuildVolumes(mount_list.v)
        network == Get(container_details, "NetworkSettings", PyDict(EmptyDict))
    IN  IF network.t # "dict" THEN Raise("AttributeError")
    ELSE
    LET ports == CollectPorts(Get(network.v, "Ports", PyNone))
    IN  IF ports.status # "ok" THEN ports
        ELSE Ok(Documents(container_name, namespace, image, config.v, env_vars,
                          mounts, ports.value))

(***************************************************************************)
(* build_k8s_documents, statement by statement, as a thread runs it.  The  *)
(* thread holds a reference to the document it was given: every statement  *)
(* reads the document as it is in the heap at that moment, and leaves in   *)
(* the heap what the statement leaves of it.                               *)
(***************************************************************************)
NoValue == [t |-> "none"]

Threads == 1..MaxThreads

\* d.pop(k, default): the value, and the dict without the key.
PopFrom(d, k, default) ==
    [value |-> Get(d, k, default), dict |-> [x \in DOMAIN d \ {k} |-> d[x]]]

\* d.get(k, default): the value, and the dict, which get leaves as it was.
GetFrom(d, k, default) == [value |-> Get(d, k, default), dict |-> d]

\* The document once its dict under key, if it has one, has become section.
WriteSection(container_details, key, section) ==
    IF key \in DOMAIN container_details /\ container_details[key].t = "dict"
    THEN [container_details EXCEPT ![key] = PyDict(section)]
    ELSE container_details

\* config.get(k, default) where config is container_details.get("Config", {}).
ReadConfig(container_details, k, default) ==
    LET config == Get(container_details, "Config", PyDict(EmptyDict))
        read == GetFrom(config.v, k, default)
    IN  [value |-> read.value,
         dict |-> WriteSection(container_details, "Config", read.dict)]

IdleFrame == [pc |-> "idle"]

\* The frame of a call that has just been made.
NewFrame(ref, container_details, namespace) ==
    [pc |-> "name", ref |-> ref, given |-> container_details, namespace |-> namespace,
     container_name |-> NoValue, image |-> NoValue, env_vars |-> NoValue,
     mounts |-> NoValue, ports |-> NoValue, result |-> NoValue]

Raised(f, d, e) == [frame |-> [f EXCEPT !.pc = "raised", !.result = Raise(e)], doc |-> d]

\* Lines 171-172.
StepName(f, d) ==
    LET section == GetFrom(d, "Config", PyDict(EmptyDict))
        config == section.value
    IN  IF config.t # "dict" THEN Raised(f, section.dict, "AttributeError")
    ELSE
    LET hostname == GetFrom(config.v, "Hostname", PyNone)
        d1 == WriteSection(section.dict, "Config", hostname.dict)
        top == GetFrom(d1, "Name", PyStr(s_app))
        name == IF Truthy(hostname.value) THEN hostname.value ELSE top.value
        d2 == IF Truthy(hostname.value) THEN d1 ELSE top.dict
    IN  IF name.t # "str" THEN Raised(f, d2, "AttributeError")
        ELSE [frame |-> [f EXCEPT !.pc = "image", !.container_name = SanitizeName(name.v)],
              doc |-> d2]

\* Line 173.
StepImage(f, d) ==
    LET read == ReadConfig(d, "Image", PyStr(s_image_latest))
    IN  [frame |-> [f EXCEPT !.pc = "env", !.image = read.value], doc |-> read.dict]

\* Line 174.
StepEnv(f, d) ==
    LET read == ReadConfig(d, "Env", PyList(<<>>))
    IN  IF read.value.t # "list" THEN Raised(f, read.dict, "TypeError")
        ELSE [frame |-> [f EXCEPT !.pc = "mounts", !.env_vars = TransformEnv(read.value.v)],
              doc |-> read.dict]

\* Line 175.
StepMounts(f, d) ==
    LET read == GetFrom(d, "Mounts", PyList(<<>>))
    IN  IF read.value.t # "list" THEN Raised(f, read.dict, "TypeError")
        ELSE [frame |-> [f EXCEPT !.pc = "ports", !.mounts = BuildVolumes(read.value.v)],
              doc |-> read.dict]

\* Line 176.
StepPorts(f, d) ==
    LET section == GetFrom(d, "NetworkSettings", PyDict(EmptyDict))
        network == section.value
    IN  IF network.t # "dict" THEN Raised(f, section.dict, "AttributeError")
    ELSE
    LET read == GetFrom(network.v, "Ports", PyNone)
        d1 == WriteSection(section.dict, "NetworkSettings", read.dict)
        ports == CollectPorts(read.value)
    IN  IF ports.status # "ok"
        THEN [frame |-> [f EXCEPT !.pc = "raised", !.result = ports], doc |-> d1]
        ELSE [frame |-> [f EXCEPT !.pc = "documents", !.ports = ports.value], doc |-> d1]

\* Lines 178-226.
StepDocuments(f, d) ==
    LET config == Get(d, "Config", PyDict(EmptyDict))
    IN  [frame |-> [f EXCEPT !.pc = "done",
                             !.result = Ok(Documents(f.container_name, f.namespace, f.image,
                                                     config.v, f.env_vars, f.mounts,
                                                     f.ports))],
         doc |-> d]

Running == {"name", "image", "env", "mounts", "ports", "documents"}

\* The statement at f.pc.
Statement(f, d) ==
    CASE f.pc = "name" -> StepName(f, d)
      [] f.pc = "image" -> StepImage(f, d)
      [] f.pc = "env" -> StepEnv(f, d)
      [] f.pc = "mounts" -> StepMounts(f, d)
      [] f.pc = "ports" -> StepPorts(f, d)
      [] f.pc = "documents" -> StepDocuments(f, d)

(***************************************************************************)
(* Inputs of sanitize_name.                                                *)
(***************************************************************************)
Alphabet == {"a", "B", "0", "-", "_"}

s_MyApp == <<"M", "y", "_", "A", "p", "p", "!", "!">>

s_my_app == <<"m", "y", "-", "a", "p", "p">>

s_dashes == <<"-", "-", "-">>

SanitizeInputs == StringsUpTo(Alphabet, MaxLen) \cup {s_MyApp, s_dashes}

(***************************************************************************)
(* Inputs of transform_env.                                                *)
(***************************************************************************)
EnvAlphabet == {"A", "="}

EnvExample == <<<<"A", "=", "1">>, <<"B">>>>

EnvInputs == StringsUpTo(StringsUpTo(EnvAlphabet, MaxEnvLen), MaxEnv) \cup {EnvExample}

(***************************************************************************)
(* Inputs of build_volumes: mount descriptors, each field absent or one of *)
(* a few values.                                                           *)
(***************************************************************************)
Absent == [t |-> "absent"]

\* The dict of the fields of f that are not Absent.
DictOf(f) == [k \in {j \in DOMAIN f : f[j] # Absent} |-> f[k]]

s_vol0 == <<"v", "o", "l", "-", "0">>

NameValues == {PyStr(<<"_", "_", "_">>), PyStr(s_vol0), PyStr(<<"C", "a">>)}

SourceValues == {PyStr(<<"/", "d">>)}

TypeValues == {PyStr(s_bind), PyStr(<<"v", "o", "l", "u", "m", "e">>)}

DestinationValues == {PyStr(<<"/", "x">>)}

FlagValues == {PyBool(TRUE), PyBool(FALSE)}

PropagationValues == {PyStr(<<>>), PyStr(<<"r", "p", "r", "i", "v", "a", "t", "e">>)}

\* Mounts whose every field varies, used one at a time.
FullMounts ==
    {DictOf([Name |-> n, Source |-> s, Type |-> ty, Destination |-> d,
             RW |-> rw, ReadOnly |-> ro, Propagation |-> p]) :
        n \in NameValues \cup {Absent, PyNone, PyStr(<<>>)},
        s \in SourceValues \cup {Absent, PyNone, PyStr(<<>>)},
        ty \in TypeValues \cup {Absent, PyNone},
        d \in DestinationValues \cup {Absent},
        rw \in FlagValues \cup {Absent},
        ro \in FlagValues \cup {Absent},
        p \in PropagationValues \cup {Absent}}

\* Mounts that vary in what names them and in their kind, used in lists.
CoreMounts ==
    {DictOf([Name |-> n, Source |-> s, Type |-> ty, Destination |-> d]) :
        n \in NameValues \cup {Absent},
        s \in SourceValues \cup {Absent},
        ty \in TypeValues \cup {Absent},
        d \in DestinationValues \cup {Absent}}

MountInputs == {<<m>> : m \in FullMounts} \cup StringsUpTo(CoreMounts, MaxMounts)

(***************************************************************************)
(* Inputs of collect_ports.                                                *)
(***************************************************************************)
k_80_tcp == <<"8", "0", "/", "t", "c", "p">>

k_53_Udp == <<"5", "3", "/", "U", "d", "p">>

k_80 == <<"8", "0">>

k_80_tcp_x == <<"8", "0", "/", "t", "c", "p", "/", "x">>

k_ab_tcp == <<"a", "b", "/", "t", "c", "p">>

PortKeys == {k_80_tcp, k_53_Udp, k_80, k_80_tcp_x, k_ab_tcp}

Binding(host_port) == DictOf([HostPort |-> host_port])

b_8080 == Binding(PyStr(<<"8", "0", "8", "0">>))

b_9090 == Binding(PyStr(<<"9", "0", "9", "0">>))

BindingLists ==
    {PyNone, PyList(<<>>), PyList(<<b_8080>>), PyList(<<Binding(PyStr(<<>>))>>),
     PyList(<<Binding(Absent)>>), PyList(<<Binding(PyStr(<<"x">>))>>),
     PyList(<<b_8080, b_9090>>), PyList(<<Binding(Absent), b_9090>>)}

PortItems == [key : PortKeys, bindings : BindingLists]

\* The item sequences of at most n items whose keys are distinct.
ItemSeqs(n) ==
    {s \in StringsUpTo(PortItems, n) :
        \A i, j \in 1..Len(s) : i # j => s[i].key # s[j].key}

PortInputs == {PyNone} \cup {PyItems(s) : s \in ItemSeqs(MaxPorts)}

(***************************************************************************)
(* Inputs of build_k8s_documents.  PresenceInputs has every section        *)
(* absent, None or present with one value, in every combination;           *)
(* ValueInputs varies the values of the name, the mounts and the ports;    *)
(* NameInputs runs the names over every short string.                      *)
(***************************************************************************)
s_MyHost == <<"M", "y", "_", "H", "o", "s", "t">>

s_web == <<"/", "w", "e", "b">>

s_nginx == <<"n", "g", "i", "n", "x">>

l_x == PyList(<<<<"x">>>>)

l_A1 == PyList(<<<<"A", "=", "1">>>>)

m_bind == DictOf([Source |-> PyStr(<<"/", "d">>), Destination |-> PyStr(<<"/", "x">>),
                  Type |-> PyStr(s_bind)])

m_unnamed_bind == DictOf([Destination |-> PyStr(<<"/", "x">>), Type |-> PyStr(s_bind)])

m_volume == DictOf([Name |-> PyStr(<<"C", "a">>), Destination |-> PyStr(<<"/", "x">>)])

m_unsanitary == DictOf([Name |-> PyStr(<<"_", "_", "_">>), RW |-> PyBool(FALSE)])

Item(key, bindings) == [key |-> key, bindings |-> bindings]

p_one == PyItems(<<Item(k_80_tcp, PyList(<<b_8080>>))>>)

ConfigOf(hostname, image, cmd, entrypoint, env) ==
    PyDict(DictOf([Hostname |-> hostname, Image |-> image, Cmd |-> cmd,
                   Entrypoint |-> entrypoint, Env |-> env]))

NetworkOf(ports) == PyDict(DictOf([Ports |-> ports]))

DetailsOf(config, name, mounts, network) ==
    DictOf([Config |-> config, Name |-> name, Mounts |-> mounts,
            NetworkSettings |-> network])

PresenceInputs ==
    {DetailsOf(config, name, mounts, network) :
        config \in {Absent, PyNone}
            \cup {ConfigOf(h, i, c, e, v) :
                    h \in {Absent, PyNone, PyStr(s_MyHost)},
                    i \in {Absent, PyNone, PyStr(s_nginx)},
                    c \in {Absent, PyNone, l_x},
                    e \in {Absent, PyNone, l_x},
                    v \in {Absent, PyNone, l_A1}},
        name \in {Absent, PyNone, PyStr(s_web)},
        mounts \in {Absent, PyNone, PyList(<<m_bind>>)},
        network \in {Absent, PyNone, NetworkOf(Absent), NetworkOf(PyNone), NetworkOf(p_one)}}

ValueInputs ==
    {DetailsOf(ConfigOf(h, PyStr(s_nginx), c, c, v), name, mounts, NetworkOf(ports)) :
        h \in {Absent, PyStr(<<>>), PyStr(<<"_", "_", "_">>), PyStr(s_MyHost)},
        c \in {PyList(<<>>), l_x},
        v \in {PyList(<<>>), PyList(<<<<"A", "=", "1">>, <<"B">>>>)},
        name \in {Absent, PyStr(<<>>), PyStr(<<"-", "_">>), PyStr(s_web)},
        mounts \in {PyList(<<>>), PyList(<<m_unnamed_bind>>), PyList(<<m_volume, m_bind>>),
                    PyList(<<m_unsanitary, m_volume>>)},
        ports \in {PyItems(<<>>), p_one,
                   PyItems(<<Item(k_80, PyList(<<b_8080>>)), Item(k_80_tcp_x, PyNone)>>),
                   PyItems(<<Item(k_80, PyNone), Item(k_53_Udp, PyList(<<>>)),
                             Item(k_80_tcp, PyList(<<b_8080, b_9090>>))>>),
                   PyItems(<<Item(k_ab_tcp, PyList(<<>>))>>)}}

\* Every short string as the hostname, as the container's Name and as the
\* Name of a mount, with a port so that a Service is named too.
NameInputs ==
    {DetailsOf(ConfigOf(h, PyStr(s_nginx), Absent, Absent, Absent), PyStr(n),
               PyList(<<DictOf([Name |-> PyStr(n), Type |-> ty])>>), NetworkOf(p_one)) :
        h \in {Absent, PyStr(<<>>)},
        n \in StringsUpTo(Alphabet, MaxLen),
        ty \in {Absent, PyStr(s_bind)}}

BuildInputs == PresenceInputs \cup ValueInputs \cup NameInputs

(***************************************************************************)
(* Inputs of the conversions that run at the same time: a document with    *)
(* every section, one with none, and one on which the call raises at its   *)
(* last read.                                                              *)
(***************************************************************************)
d_full ==
    DetailsOf(ConfigOf(PyStr(s_MyHost), PyStr(s_nginx), l_x, l_x, l_A1), PyStr(s_web),
              PyList(<<m_volume, m_bind>>), NetworkOf(p_one))

d_bare == DetailsOf(Absent, PyStr(s_web), Absent, Absent)

d_bad_port ==
    DetailsOf(ConfigOf(Absent, PyStr(s_nginx), Absent, Absent, l_A1), PyStr(s_web),
              PyList(<<m_volume>>), NetworkOf(PyItems(<<Item(k_ab_tcp, PyList(<<>>))>>)))

s_default == <<"d", "e", "f", "a", "u", "l", "t">>

s_prod == <<"p", "r", "o", "d">>

Conversion(container_details, namespace) ==
    [container_details |-> container_details, namespace |-> namespace]

ConcurrentInputs ==
    {Conversion(d_full, s_default), Conversion(d_bare, s_prod),
     Conversion(d_bad_port, s_prod)}

Namespaces == {<<"d", "e", "f", "a", "u", "l", "t">>, <<"p", "r", "o", "d">>}

(***************************************************************************)
(* PortainerClient.  A parameter the caller does not pass is Absent.  A    *)
(* request is what the session is asked to send; the answers of the server *)
(* are inputs of the calls.                                                *)
(***************************************************************************)
PyInt(n) == [t |-> "int", v |-> n]

s_http == <<"h", "t", "t", "p", ":", "/", "/">>

s_https == <<"h", "t", "t", "p", "s", ":", "/", "/">>

s_api_auth == <<"/", "a", "p", "i", "/", "a", "u", "t", "h">>

s_api_endpoints == <<"/", "a", "p", "i", "/", "e", "n", "d", "p", "o", "i", "n", "t", "s", "/">>

s_docker_containers_json == <<"/", "d", "o", "c", "k", "e", "r", "/", "c", "o", "n", "t", "a", "i", "n", "e", "r", "s", "/", "j", "s", "o", "n">>

s_None == <<"N", "o", "n", "e">>

s_Bearer == <<"B", "e", "a", "r", "e", "r", " ">>

s_no_container == <<"N", "o", " ", "c", "o", "n", "t", "a", "i", "n", "e", "r", " ", "m", "a", "t", "c", "h", "i", "n", "g", " ", "'">>

s_on_endpoint == <<"'", " ", "o", "n", " ", "e", "n", "d", "p", "o", "i", "n", "t", " ">>

s_multiple == <<"M", "u", "l", "t", "i", "p", "l", "e", " ", "c", "o", "n", "t", "a", "i", "n", "e", "r", "s", " ", "m", "a", "t", "c", "h", " ", "'">>

s_colon == <<"'", ":", " ">>

s_comma == <<",", " ">>

\* s.startswith(prefix)
StartsWith(s, prefix) == Len(prefix) <= Len(s) /\ SubSeq(s, 1, Len(prefix)) = prefix

\* f"{v}" of an int, of None or of a str.
Format(v) ==
    CASE v.t = "int" -> IntToStr(v.v)
      [] v.t = "None" -> s_None
      [] OTHER -> v.v

Request(method, url, params, body, timeout) ==
    [method |-> method, url |-> url, params |-> params, json |-> body, timeout |-> timeout]

\* An exception with its message.
RaiseWith(e, message) == [status |-> "raise", exc |-> e, message |-> message]

\* Lines 45-55: the request, and the token or the exception.
Login(base_url, username, password, response) ==
    [request |-> Request("POST", base_url \o s_api_auth, NoValue,
                         [Username |-> username, Password |-> password], 15),
     outcome |-> IF response.status_code # 200 THEN Raise("RuntimeError")
                 ELSE IF "jwt" \notin DOMAIN response.json THEN Raise("KeyError")
                 ELSE Ok(response.json["jwt"])]

\* Lines 22-43: PortainerClient(...), with the requests it sends.  base_url
\* and endpoint_id have no default.
PortainerClientInit(base_url, endpoint_id, api_key, username, password, response) ==
    IF base_url = Absent \/ endpoint_id = Absent
    THEN [outcome |-> Raise("TypeError"), sent |-> <<>>]
    ELSE IF ~(StartsWith(base_url.v, s_http) \/ StartsWith(base_url.v, s_https))
    THEN [outcome |-> Raise("ValueError"), sent |-> <<>>]
    ELSE
    LET key == IF api_key = Absent THEN PyNone ELSE api_key
        user == IF username = Absent THEN PyNone ELSE username
        pass == IF password = Absent THEN PyNone ELSE password
        self == [base_url |-> RStrip(base_url.v, "/"), endpoint_id |-> endpoint_id,
                 headers |-> EmptyDict]
    IN  IF Truthy(key)
        THEN [outcome |-> Ok([self EXCEPT !.headers = [h \in {"X-API-Key"} |-> key.v]]),
              sent |-> <<>>]
        ELSE IF Truthy(user) /\ Truthy(pass)
        THEN LET login == Login(self.base_url, user.v, pass.v, response)
             IN  [outcome |->
                     IF login.outcome.status # "ok" THEN login.outcome
                     ELSE Ok([self EXCEPT !.headers =
                                 [h \in {"Authorization"} |-> s_Bearer \o login.outcome.value]]),
                  sent |-> <<login.request>>]
        ELSE [outcome |-> Raise("ValueError"), sent |-> <<>>]

\* Lines 19-86: what a PortainerClient object has.
Attributes ==
    {"base_url", "endpoint_id", "session",
     "__init__", "_login", "resolve_container_id", "get_container_details"}

\* self.<name>
GetAttr(name) == IF name \in Attributes THEN Ok(name) ELSE Raise("AttributeError")

\* Lines 68-70: does the container match the reference?
ContainerMatches(container, container_ref) ==
    IF "Id" \notin DOMAIN container THEN Raise("KeyError")
    ELSE
    LET listed == Get(container, "Names", PyList(<<>>))
    IN  IF listed.t # "list" THEN Raise("TypeError")
        ELSE
        LET names == [i \in 1..Len(listed.v) |-> LStrip(listed.v[i], "/")]
        IN  Ok(StartsWith(container["Id"].v, container_ref)
               \/ container_ref \in Range(names))

\* Lines 66-71: matches, from the i-th container of the listing on.
RECURSIVE MatchesFrom(_, _, _, _)
MatchesFrom(listing, i, container_ref, matches) ==
    IF i > Len(listing) THEN Ok(matches)
    ELSE
    LET match == ContainerMatches(listing[i], container_ref)
    IN  IF match.status # "ok" THEN match
        ELSE MatchesFrom(listing, i + 1, container_ref,
                         IF match.value THEN Append(matches, listing[i]["Id"].v)
                         ELSE matches)

\* sep.join(strs)
RECURSIVE Join(_, _)
Join(sep, strs) ==
    IF strs = <<>> THEN <<>>
    ELSE IF Len(strs) = 1 THEN strs[1]
    ELSE strs[1] \o sep \o Join(sep, Tail(strs))

\* Returns the first match, however many there are.
ResolveFirstMatch(self, container_ref, matches) ==
    IF matches = <<>>
    THEN RaiseWith("RuntimeError",
                   s_no_container \o container_ref \o s_on_endpoint
                   \o Format(self.endpoint_id))
    ELSE Ok(matches[1])

\* Lines 73-78.
ResolveOutcome(self, container_ref, matches) ==
    IF matches = <<>>
    THEN RaiseWith("RuntimeError",
                   s_no_container \o container_ref \o s_on_endpoint
                   \o Format(self.endpoint_id))
    ELSE IF Len(matches) > 1
    THEN RaiseWith("RuntimeError",
                   s_multiple \o container_ref \o s_colon \o Join(s_comma, matches))
    ELSE Ok(matches[1])

\* Lines 57-78: the request, and the id or the exception.  raise_for_status
\* raises on a 4xx or 5xx answer.
ResolveContainerId(self, container_ref, response) ==
    [sent |-> <<Request("GET",
                        self.base_url \o s_api_endpoints \o Format(self.endpoint_id)
                        \o s_docker_containers_json,
                        [all |-> TRUE], NoValue, 15)>>,
     outcome |->
        IF response.status_code >= 400 THEN Raise("HTTPError")
        ELSE LET matches == MatchesFrom(response.json, 1, container_ref, <<>>)
             IN  IF matches.status # "ok" THEN matches
                 ELSE ResolveOutcome(self, container_ref, matches.value)]

(***************************************************************************)
(* Inputs of PortainerClient: the arguments of the constructor, the        *)
(* answers of the server, the listings of an endpoint (containers with     *)
(* distinct ids, their names as Docker reports them) and the references.   *)
(***************************************************************************)
BaseUrls ==
    {Absent, PyStr(s_http \o <<"p">>), PyStr(s_https \o <<"p", "/", "/">>), PyStr(<<"p">>)}

EndpointIds == {Absent, PyNone, PyInt(1), PyInt(12)}

ApiKeys == {Absent, PyStr(<<>>), PyStr(<<"k">>)}

Usernames == {Absent, PyStr(<<"u">>)}

Passwords == {Absent, PyStr(<<"w">>)}

Answer(status_code, body) == [status_code |-> status_code, json |-> body]

LoginAnswers ==
    {Answer(200, [jwt |-> <<"t">>]), Answer(200, EmptyDict), Answer(401, EmptyDict)}

e_local == [Id |-> 1, Name |-> <<"l", "o", "c", "a", "l">>]

e_remote == [Id |-> 2, Name |-> <<"r", "e", "m", "o", "t", "e">>]

EndpointAnswers ==
    {Answer(200, <<e_local, e_remote>>), Answer(200, <<e_local>>), Answer(404, <<>>),
     Answer(500, <<>>)}

ContainerIds == {<<"a", "a">>, <<"a", "b">>, <<"b", "a">>}

ContainerNames ==
    {Absent, PyList(<<<<"/", "a", "b">>>>), PyList(<<<<"/", "a">>>>),
     PyList(<<<<"/", "b">>, <<"a", "a">>>>)}

Containers ==
    {DictOf([Id |-> PyStr(id), Names |-> names]) : id \in ContainerIds, names \in ContainerNames}

Listings ==
    {listing \in UNION {[1..n -> Containers] : n \in 0..MaxContainers} :
        \A i, j \in 1..Len(listing) : i # j => listing[i]["Id"] # listing[j]["Id"]}

ListingAnswers ==
    {Answer(200, listing) : listing \in Listings} \cup {Answer(404, <<>>), Answer(500, <<>>)}

ContainerRefs == StringsUpTo({"a", "b"}, Len(<<"a", "b">>)) \cup {<<"/", "a">>}

(***************************************************************************)
(* The calls.                                                              *)
(***************************************************************************)
Init ==
    /\ op = "idle"
    /\ arg = NoValue
    /\ ret = NoValue
    /\ heap = [c \in Threads |-> NoValue]
    /\ frame = [t \in Threads |-> IdleFrame]
    /\ client = NoValue
    /\ sent = <<>>
    /\ interleaved = FALSE

CallSanitizeName ==
    /\ op = "idle"
    /\ \E name \in SanitizeInputs :
          /\ arg' = name
          /\ ret' = Ok(SanitizeName(name))
    /\ op' = "sanitize_name"
    /\ UNCHANGED <<heap, frame, client, sent, interleaved>>

CallTransformEnv ==
    /\ op = "idle"
    /\ \E env_list \in EnvInputs :
          /\ arg' = env_list
          /\ ret' = Ok(TransformEnv(env_list))
    /\ op' = "transform_env"
    /\ UNCHANGED <<heap, frame, client, sent, interleaved>>

CallBuildVolumes ==
    /\ op = "idle"
    /\ \E mounts \in MountInputs :
          /\ arg' = mounts
          /\ ret' = Ok(BuildVolumes(mounts))
    /\ op' = "build_volumes"
    /\ UNCHANGED <<heap, frame, client, sent, interleaved>>

CallCollectPorts ==
    /\ op = "idle"
    /\ \E port_map \in PortInputs :
          /\ arg' = port_map
          /\ ret' = CollectPorts(port_map)
    /\ op' = "collect_ports"
    /\ UNCHANGED <<heap, frame, client, sent, interleaved>>

CallBuildK8sDocuments ==
    /\ op = "idle"
    /\ \E container_details \in BuildInputs, namespace \in Namespaces :
          /\ arg' = [container_details |-> container_details, namespace |-> namespace]
          /\ ret' = BuildK8sDocuments(container_details, namespace)
    /\ op' = "build_k8s_documents"
    /\ UNCHANGED <<heap, frame, client, sent, interleaved>>

\* The caller takes the result; the next call starts from scratch.
Return ==
    /\ op # "idle"
    /\ op' = "idle"
    /\ arg' = NoValue
    /\ ret' = NoValue
    /\ sent' = <<>>
    /\ UNCHANGED <<heap, frame, client, interleaved>>

NextSanitize == CallSanitizeName \/ Return

SpecSanitize == Init /\ [][NextSanitize]_vars

NextEnv == CallTransformEnv \/ Return

SpecEnv == Init /\ [][NextEnv]_vars

NextVolumes == CallBuildVolumes \/ Return

SpecVolumes == Init /\ [][NextVolumes]_vars

NextPorts == CallCollectPorts \/ Return

SpecPorts == Init /\ [][NextPorts]_vars

NextBuild == CallBuildK8sDocuments \/ Return

SpecBuild == Init /\ [][NextBuild]_vars

(***************************************************************************)
(* Conversions in threads.  A caller hands a thread a document of its own  *)
(* or the document another thread is converting; the threads' statements   *)
(* interleave in any order.                                                *)
(***************************************************************************)
\* The cells of the heap some call refers to.
InUse(frames) == {frames[u].ref : u \in {x \in Threads : frames[x].pc # "idle"}}

FreeCell == CHOOSE c \in Threads \ InUse(frame) : \A x \in Threads \ InUse(frame) : c <= x

\* build_k8s_documents(container_details, namespace) is called in thread t.
StartConversion ==
    /\ \E t \in Threads :
          /\ frame[t].pc = "idle"
          /\ \/ \E call \in ConcurrentInputs :
                   /\ heap' = [heap EXCEPT ![FreeCell] = call.container_details]
                   /\ frame' = [frame EXCEPT
                                   ![t] = NewFrame(FreeCell, call.container_details,
                                                   call.namespace)]
             \/ \E u \in Threads :
                   /\ frame[u].pc # "idle"
                   /\ heap' = heap
                   /\ frame' = [frame EXCEPT
                                   ![t] = NewFrame(frame[u].ref, heap[frame[u].ref],
                                                   frame[u].namespace)]
    /\ UNCHANGED <<op, arg, ret, client, sent, interleaved>>

\* Some thread runs its next statement.
StepConversion ==
    /\ \E t \in Threads :
          /\ frame[t].pc \in Running
          /\ LET f == frame[t]
                 after == Statement(f, heap[f.ref])
             IN  /\ frame' = [frame EXCEPT ![t] = after.frame]
                 /\ heap' = [heap EXCEPT ![f.ref] = after.doc]
          /\ interleaved' = (interleaved \/ \E u \in Threads \ {t} : frame[u].pc \in Running)
    /\ UNCHANGED <<op, arg, ret, client, sent>>

\* The caller takes the outcome of a finished call; a document no call
\* refers to any more is dropped.
JoinConversion ==
    /\ \E t \in Threads :
          /\ frame[t].pc \in {"done", "raised"}
          /\ frame' = [frame EXCEPT ![t] = IdleFrame]
          /\ heap' = [c \in Threads |-> IF c \in InUse(frame') THEN heap[c] ELSE NoValue]
    /\ interleaved' = FALSE
    /\ UNCHANGED <<op, arg, ret, client, sent>>

NextThreads == StartConversion \/ StepConversion \/ JoinConversion

SpecThreads == Init /\ [][NextThreads]_vars

(***************************************************************************)
(* The calls on a PortainerClient.                                         *)
(***************************************************************************)
\* client = PortainerClient(...): the name is bound only if the call returns.
NewPortainerClient ==
    /\ op = "idle"
    /\ \E base_url \in BaseUrls, endpoint_id \in EndpointIds, api_key \in ApiKeys,
          username \in Usernames, password \in Passwords, answer \in LoginAnswers :
          LET call == PortainerClientInit(base_url, endpoint_id, api_key, username,
                                          password, answer)
          IN  /\ arg' = [base_url |-> base_url, endpoint_id |-> endpoint_id,
                         api_key |-> api_key, username |-> username,
                         password |-> password, answer |-> answer]
              /\ ret' = call.outcome
              /\ sent' = call.sent
              /\ client' = IF call.outcome.status = "ok" THEN call.outcome.value ELSE client
    /\ op' = "PortainerClient"
    /\ UNCHANGED <<heap, frame, interleaved>>

\* client.get_endpoints(): the attribute is looked up before anything is
\* called or sent.  answers are what the server would answer.
CallGetEndpoints ==
    /\ op = "idle"
    /\ client # NoValue
    /\ \E first \in EndpointAnswers, second \in EndpointAnswers :
          arg' = [self |-> client, answers |-> <<first, second>>]
    /\ ret' = GetAttr("get_endpoints")
    /\ sent' = <<>>
    /\ op' = "get_endpoints"
    /\ UNCHANGED <<heap, frame, client, interleaved>>

\* client.resolve_container_id(container_ref)
CallResolveContainerId ==
    /\ op = "idle"
    /\ client # NoValue
    /\ \E container_ref \in ContainerRefs, answer \in ListingAnswers :
          LET call == ResolveContainerId(client, container_ref, answer)
          IN  /\ arg' = [self |-> client, container_ref |-> container_ref,
                         answer |-> answer]
              /\ ret' = call.outcome
              /\ sent' = call.sent
    /\ op' = "resolve_container_id"
    /\ UNCHANGED <<heap, frame, client, interleaved>>

NextClient == NewPortainerClient \/ CallGetEndpoints \/ CallResolveContainerId \/ Return

SpecClient == Init /\ [][NextClient]_vars

Next ==
    \/ CallSanitizeName
    \/ CallTransformEnv
    \/ CallBuildVolumes
    \/ CallCollectPorts
    \/ CallBuildK8sDocuments
    \/ Return
    \/ StartConversion
    \/ StepConversion
    \/ JoinConversion
    \/ NewPortainerClient
    \/ CallGetEndpoints
    \/ CallResolveContainerId

Spec == Init /\ [][Next]_vars

(***************************************************************************)
(* Properties of sanitize_name.                                            *)
(***************************************************************************)
Sanitized == op = "sanitize_name" /\ ret.status = "ok"

\* C8: sanitize_name is idempotent: applied to its own result, the fallback
\* literal included, it returns that result unchanged.
C8_SanitizeIdempotent ==
    Sanitized => SanitizeName(ret.value) = ret.value

\* The first call changed its input and returned the fallback literal.
C8_Witness ==
    /\ Sanitized
    /\ arg # <<>>
    /\ ret.value = s_container
    /\ SanitizeName(ret.value) = s_container

\* The reference of C9, by positions: position i of the lower-cased input is
\* kept when it holds a character of [a-z0-9-], and gives one "-" when it
\* starts a maximal run of other characters; the dashes before the first and
\* after the last other character are dropped.
RefCollapse(x) ==
    LET l == Lower(x)
        idx == [i \in 1..Len(l) |-> i]
        Keep(i) == NameChar(l[i]) \/ i = 1 \/ NameChar(l[i - 1])
        kept == SelectSeq(idx, Keep)
    IN  [k \in 1..Len(kept) |-> IF NameChar(l[kept[k]]) THEN l[kept[k]] ELSE "-"]

RefStrip(s) ==
    LET body == {i \in 1..Len(s) : s[i] # "-"}
    IN  IF body = {} THEN <<>>
        ELSE SubSeq(s, CHOOSE i \in body : \A j \in body : i <= j,
                       CHOOSE i \in body : \A j \in body : i >= j)

RefSanitize(x) ==
    LET s == RefStrip(RefCollapse(x))
    IN  IF s = <<>> THEN s_container ELSE s

\* C9: sanitize_name equals the reference (lower-case, every maximal run of
\* characters outside [a-z0-9-] becomes one "-", strip "-" at both ends,
\* "container" when nothing is left); "My_App!!" gives "my-app", "---" and ""
\* give "container".
C9_SanitizeReference ==
    Sanitized =>
        /\ ret.value = RefSanitize(arg)
        /\ arg = s_MyApp => ret.value = s_my_app
        /\ arg \in {s_dashes, <<>>} => ret.value = s_container

\* A run of two characters outside the class, between two kept characters.
C9_Witness ==
    /\ Sanitized
    /\ Len(arg) = 4
    /\ arg[1] = "B" /\ arg[2] = "_" /\ arg[3] = "_" /\ arg[4] = "a"
    /\ ret.value = <<"b", "-", "a">>

(***************************************************************************)
(* Properties of transform_env.                                            *)
(***************************************************************************)
EnvMapped == op = "transform_env" /\ ret.status = "ok"

\* C10: transform_env returns one entry per input entry, in order; entry k
\* has as name what precedes the first "=" of input k and as value all that
\* follows it (a name holds no "=", and name, "=", value spell the input);
\* an input without "=" gives itself as name and "" as value; entries of the
\* same name are all kept.  ["A=1", "B"] gives [(A, 1), (B, "")].
C10_EnvSplitFirst ==
    EnvMapped =>
        /\ Len(ret.value) = Len(arg)
        /\ \A k \in 1..Len(arg) :
              LET e == arg[k]
                  r == ret.value[k]
              IN  /\ "=" \notin Range(r.name)
                  /\ "=" \in Range(e) => e = r.name \o <<"=">> \o r.value
                  /\ "=" \notin Range(e) => r.name = e /\ r.value = <<>>
        /\ arg = EnvExample =>
              ret.value = <<[name |-> <<"A">>, value |-> <<"1">>],
                            [name |-> <<"B">>, value |-> <<>>]>>

\* Two entries of the same name, the first with a second "=" kept in its
\* value, the second without "=".
C10_Witness ==
    /\ EnvMapped
    /\ Len(arg) = 2
    /\ arg[1] = <<"A", "=", "=">> /\ arg[2] = <<"A">>
    /\ ret.value[1] = [name |-> <<"A">>, value |-> <<"=">>]
    /\ ret.value[2] = [name |-> <<"A">>, value |-> <<>>]

(***************************************************************************)
(* Properties of build_volumes.                                            *)
(***************************************************************************)
VolumesBuilt == op = "build_volumes" /\ ret.status = "ok"

\* C2: every entry of volume_mounts has exactly one entry of volumes of the
\* same name.
C2_OneVolumePerMount ==
    VolumesBuilt =>
        \A i \in 1..Len(ret.value.volume_mounts) :
            Cardinality({j \in 1..Len(ret.value.volumes) :
                            ret.value.volumes[j].name = ret.value.volume_mounts[i].name}) = 1

\* The first non-empty of Name, Source and "vol-{i}" of the mount at
\* position i (0-based).
ChosenName(mount, i) ==
    IF "Name" \in DOMAIN mount /\ Truthy(mount["Name"]) THEN mount["Name"].v
    ELSE IF "Source" \in DOMAIN mount /\ Truthy(mount["Source"]) THEN mount["Source"].v
    ELSE VolIndex(i)

\* C6: the mount at index i is named sanitize(first non-empty of Name, Source,
\* "vol-{i}") with fallback "vol-{i}": "vol-{i}" when the chosen string
\* sanitizes to the empty string.
C6_MountNameFallsBackToIndex ==
    VolumesBuilt =>
        \A i \in 1..Len(arg) :
            LET s == RefStrip(RefCollapse(ChosenName(arg[i], i - 1)))
            IN  ret.value.volume_mounts[i].name = IF s = <<>> THEN VolIndex(i - 1) ELSE s

Unnamed(mount) ==
    /\ ~("Name" \in DOMAIN mount /\ Truthy(mount["Name"]))
    /\ ~("Source" \in DOMAIN mount /\ Truthy(mount["Source"]))

\* C7: a mount with neither a Name nor a Source gets a volume-mount name that
\* differs from the name of every other mount of the list.
C7_UnnamedMountHasUniqueName ==
    VolumesBuilt =>
        \A i, j \in 1..Len(arg) :
            (i # j /\ Unnamed(arg[i])) =>
                ret.value.volume_mounts[i].name # ret.value.volume_mounts[j].name

(***************************************************************************)
(* Properties of collect_ports.                                            *)
(***************************************************************************)
\* A key that splits on "/" into exactly two parts holds exactly one "/".
WellFormedKey(key) == Cardinality({i \in 1..Len(key) : key[i] = "/"}) = 1

ItemsOf(port_map) == IF port_map.t = "items" THEN port_map.v ELSE <<>>

WellFormedItems(port_map) ==
    {i \in 1..Len(ItemsOf(port_map)) : WellFormedKey(ItemsOf(port_map)[i].key)}

\* C5: collect_ports never raises over maps with string keys: it returns one
\* entry for every key that splits on "/" into exactly two parts and none for
\* any other key, whatever the port part and the HostPort are.
C5_CollectPortsNeverRaises ==
    op = "collect_ports" =>
        /\ ret.status = "ok"
        /\ Len(ret.value) = Cardinality(WellFormedItems(arg))

(***************************************************************************)
(* Properties of build_k8s_documents.                                      *)
(***************************************************************************)
Built == op = "build_k8s_documents" /\ ret.status = "ok"

\* NetworkSettings.Ports of an input, None when either is absent.
PortsOf(container_details) ==
    IF /\ "NetworkSettings" \in DOMAIN container_details
       /\ container_details["NetworkSettings"].t = "dict"
       /\ "Ports" \in DOMAIN container_details["NetworkSettings"].v
    THEN container_details["NetworkSettings"].v["Ports"]
    ELSE PyNone

AllDigits(s) == s # <<>> /\ \A i \in 1..Len(s) : s[i] \in Range(DigitSeq)

\* No key of the dict holds None.
NoneFree(d) == \A k \in DOMAIN d : d[k] # PyNone

\* The port part of every well-formed key is a number, and so is every
\* HostPort that is not empty.
NumericPorts(port_map) ==
    \A i \in WellFormedItems(port_map) :
        LET item == ItemsOf(port_map)[i]
        IN  /\ AllDigits(Split(item.key, "/")[1])
            /\ item.bindings.t = "list" =>
                  \A j \in 1..Len(item.bindings.v) :
                      "HostPort" \in DOMAIN item.bindings.v[j] =>
                          \/ item.bindings.v[j]["HostPort"].v = <<>>
                          \/ AllDigits(item.bindings.v[j]["HostPort"].v)

\* An inspection document as the engine API gives it: sections are there or
\* missing, never None, and the ports are numbers.
InspectionDocument(container_details) ==
    /\ NoneFree(container_details)
    /\ "Config" \in DOMAIN container_details => NoneFree(container_details["Config"].v)
    /\ "NetworkSettings" \in DOMAIN container_details =>
          NoneFree(container_details["NetworkSettings"].v)
    /\ NumericPorts(PortsOf(container_details))

\* C1: build_k8s_documents returns one document, a Deployment, or two, a
\* Deployment then a Service; the Service is there if and only if
\* collect_ports derived a port entry from NetworkSettings.Ports, so never
\* for an absent or empty map or one whose keys are all malformed; and it
\* does return for every inspection document.
C1_ServiceIffPorts ==
    /\ Built =>
          LET docs == ret.value
              port_map == PortsOf(arg.container_details)
          IN  /\ Len(docs) \in {1, 2}
              /\ docs[1].kind = "Deployment"
              /\ Len(docs) = 2 => docs[2].kind = "Service"
              /\ Len(docs) = 2 <=> CollectPorts(port_map).value # <<>>
              /\ Len(docs) = 2 <=> WellFormedItems(port_map) # {}
    /\ (op = "build_k8s_documents" /\ InspectionDocument(arg.container_details)) =>
          ret.status = "ok"

\* A map that is not empty and whose keys are all malformed gave one document.
C1_Witness ==
    /\ Built
    /\ ItemsOf(PortsOf(arg.container_details)) # <<>>
    /\ WellFormedItems(PortsOf(arg.container_details)) = {}
    /\ Len(ret.value) = 1

ValidName(s) ==
    /\ s # <<>>
    /\ \A i \in 1..Len(s) : NameChar(s[i])
    /\ s[1] # "-"
    /\ s[Len(s)] # "-"

PodSpec(docs) == docs[1].spec.template.spec

VolumesIn(docs) ==
    IF "volumes" \in DOMAIN PodSpec(docs) THEN PodSpec(docs).volumes ELSE <<>>

VolumeMountsIn(docs) ==
    IF "volumeMounts" \in DOMAIN PodSpec(docs).containers[1]
    THEN PodSpec(docs).containers[1].volumeMounts ELSE <<>>

\* Every resource name of the documents.
ResourceNames(docs) ==
    {docs[1].metadata.name,
     PodSpec(docs).containers[1].name,
     docs[1].spec.selector.matchLabels.app,
     docs[1].spec.template.metadata.labels.app}
    \cup {docs[i].metadata.name : i \in 2..Len(docs)}
    \cup {docs[i].spec.selector.app : i \in 2..Len(docs)}
    \cup {VolumesIn(docs)[i].name : i \in 1..Len(VolumesIn(docs))}
    \cup {VolumeMountsIn(docs)[i].name : i \in 1..Len(VolumeMountsIn(docs))}
    \cup {VolumesIn(docs)[i].persistentVolumeClaim.claimName :
            i \in {j \in 1..Len(VolumesIn(docs)) :
                     "persistentVolumeClaim" \in DOMAIN VolumesIn(docs)[j]}}

\* C3: every resource name of the documents (Deployment, container, app
\* label, Service, volumes, volume mounts, claims) is not empty, is made of
\* characters of [a-z0-9-] and neither starts nor ends with "-".
C3_NamesAreValid ==
    Built => \A n \in ResourceNames(ret.value) : ValidName(n)

\* A hostname of no valid character, with a Service, a volume and a claim.
C3_Witness ==
    /\ Built
    /\ "Config" \in DOMAIN arg.container_details
    /\ "Hostname" \in DOMAIN arg.container_details["Config"].v
    /\ arg.container_details["Config"].v["Hostname"] = PyStr(<<"_", "_", "_">>)
    /\ ret.value[1].metadata.name = s_container
    /\ Len(ret.value) = 2
    /\ \E i \in 1..Len(VolumesIn(ret.value)) :
          "persistentVolumeClaim" \in DOMAIN VolumesIn(ret.value)[i]

\* C4: build_k8s_documents returns its documents for every input in which
\* any of Config, Hostname, Image, Cmd, Entrypoint, Env, Name, Mounts,
\* NetworkSettings and Ports is missing or None.
C4_NeverFailsOnMissingSections ==
    (op = "build_k8s_documents" /\ arg.container_details \in PresenceInputs) =>
        /\ ret.status = "ok"
        /\ Len(ret.value) \in {1, 2}

(***************************************************************************)
(* Properties of the entries of build_volumes.                             *)
(***************************************************************************)
Has(mount, key) == key \in DOMAIN mount

NonEmptyStr(v) == v.t = "str" /\ v.v # <<>>

BindMount(mount) == Has(mount, "Type") /\ mount["Type"] = PyStr(s_bind)

Sourced(mount) == Has(mount, "Source") /\ NonEmptyStr(mount["Source"])

\* C11: the volume-mount entry of a mount has readOnly = true if and only
\* if the mount has RW explicitly false or its ReadOnly flag set; in every
\* other case it has no readOnly key.
C11_ReadOnlyIffMarked ==
    VolumesBuilt =>
        \A i \in 1..Len(arg) :
            LET entry == ret.value.volume_mounts[i]
                marked ==
                    \/ Has(arg[i], "RW") /\ arg[i]["RW"] = PyBool(FALSE)
                    \/ Has(arg[i], "ReadOnly") /\ arg[i]["ReadOnly"] = PyBool(TRUE)
            IN  /\ marked => "readOnly" \in DOMAIN entry /\ entry.readOnly = TRUE
                /\ ~marked => DOMAIN entry = {"name", "mountPath"}

\* RW true does not undo a set ReadOnly flag.
C11_Witness ==
    /\ VolumesBuilt
    /\ Len(arg) = 1
    /\ Has(arg[1], "RW") /\ arg[1]["RW"] = PyBool(TRUE)
    /\ Has(arg[1], "ReadOnly") /\ arg[1]["ReadOnly"] = PyBool(TRUE)
    /\ ret.value.volume_mounts[1].readOnly = TRUE

IsHostPath(volume) == "hostPath" \in DOMAIN volume

IsClaim(volume) == "persistentVolumeClaim" \in DOMAIN volume

IsSourcedBind(mount) == BindMount(mount) /\ Sourced(mount)

IsNotBind(mount) == ~BindMount(mount)

\* C12: a bind mount with an empty or absent Source gives no volume; every
\* other bind mount gives exactly one host-path volume, its path the Source
\* as given, its type "DirectoryOrCreate" when Propagation is present and
\* not empty and "Directory" otherwise.
C12_BindMountsGiveHostPaths ==
    VolumesBuilt =>
        LET host_paths == SelectSeq(ret.value.volumes, IsHostPath)
            binds == SelectSeq(arg, IsSourcedBind)
        IN  /\ Len(host_paths) = Len(binds)
            /\ Len(ret.value.volumes) = Len(binds) + Len(SelectSeq(arg, IsNotBind))
            /\ \A k \in 1..Len(binds) :
                  /\ host_paths[k].hostPath.path = binds[k]["Source"]
                  /\ host_paths[k].hostPath.type =
                        IF Has(binds[k], "Propagation") /\ NonEmptyStr(binds[k]["Propagation"])
                        THEN s_DirectoryOrCreate ELSE s_Directory

\* A bind mount with a Source and a Propagation setting.
C12_Witness ==
    /\ VolumesBuilt
    /\ Len(arg) = 1
    /\ IsSourcedBind(arg[1])
    /\ Has(arg[1], "Propagation") /\ NonEmptyStr(arg[1]["Propagation"])
    /\ Len(ret.value.volumes) = 1
    /\ ret.value.volumes[1].hostPath.path = PyStr(<<"/", "d">>)
    /\ ret.value.volumes[1].hostPath.type = s_DirectoryOrCreate

Indices(s) == [i \in 1..Len(s) |-> i]

\* C13: every volume has a name and exactly one of hostPath and
\* persistentVolumeClaim; every mount whose Type is not "bind", an absent
\* Type included, gives a claim volume whose claimName is the volume's name,
\* which is the name of the mount's volume-mount entry.
C13_ClaimNamedAsMount ==
    VolumesBuilt =>
        LET claims == SelectSeq(ret.value.volumes, IsClaim)
            NotBindAt(i) == IsNotBind(arg[i])
            not_bind == SelectSeq(Indices(arg), NotBindAt)
        IN  /\ \A j \in 1..Len(ret.value.volumes) :
                  \/ DOMAIN ret.value.volumes[j] = {"name", "hostPath"}
                  \/ DOMAIN ret.value.volumes[j] = {"name", "persistentVolumeClaim"}
            /\ Len(claims) = Len(not_bind)
            /\ \A k \in 1..Len(not_bind) :
                  /\ claims[k].persistentVolumeClaim.claimName = claims[k].name
                  /\ claims[k].name = ret.value.volume_mounts[not_bind[k]].name

\* A mount without a Type whose Name is changed by the sanitizer.
C13_Witness ==
    /\ VolumesBuilt
    /\ Len(arg) = 1
    /\ ~Has(arg[1], "Type")
    /\ Has(arg[1], "Name") /\ arg[1]["Name"] = PyStr(<<"C", "a">>)
    /\ ret.value.volumes[1].persistentVolumeClaim.claimName = <<"c", "a">>
    /\ ret.value.volume_mounts[1].name = <<"c", "a">>

\* C19: volume_mounts has one entry per mount, in the order of the mounts,
\* entry k with the Destination of mount k as mountPath ("/data" when the
\* mount has none); volumes holds the volumes in the order of the mounts
\* they come from.
C19_OrderPreserved ==
    VolumesBuilt =>
        LET EmitsAt(i) == IsNotBind(arg[i]) \/ IsSourcedBind(arg[i])
            emitters == SelectSeq(Indices(arg), EmitsAt)
        IN  /\ Len(ret.value.volume_mounts) = Len(arg)
            /\ \A k \in 1..Len(arg) :
                  ret.value.volume_mounts[k].mountPath =
                      IF Has(arg[k], "Destination") THEN arg[k]["Destination"]
                      ELSE PyStr(s_data)
            /\ Len(ret.value.volumes) = Len(emitters)
            /\ \A k \in 1..Len(emitters) :
                  /\ ret.value.volumes[k].name = ret.value.volume_mounts[emitters[k]].name
                  /\ IsHostPath(ret.value.volumes[k]) <=> BindMount(arg[emitters[k]])

\* Two mounts of different names and kinds, the second without Destination.
C19_Witness ==
    /\ VolumesBuilt
    /\ Len(arg) = 2
    /\ IsSourcedBind(arg[1]) /\ IsNotBind(arg[2])
    /\ Has(arg[1], "Destination") /\ ~Has(arg[2], "Destination")
    /\ ret.value.volume_mounts[2].mountPath = PyStr(s_data)
    /\ ret.value.volumes[1].name # ret.value.volumes[2].name
    /\ IsHostPath(ret.value.volumes[1]) /\ IsClaim(ret.value.volumes[2])

(***************************************************************************)
(* Properties of the entries of collect_ports.                             *)
(***************************************************************************)
PortsCollected == op = "collect_ports" /\ ret.status = "ok"

\* The items of the map whose key is well-formed, in the order of the map.
WellFormedSeq(port_map) ==
    LET WellFormedAt(i) == WellFormedKey(ItemsOf(port_map)[i].key)
        at == SelectSeq(Indices(ItemsOf(port_map)), WellFormedAt)
    IN  [k \in 1..Len(at) |-> ItemsOf(port_map)[at[k]]]

SlashOf(key) == CHOOSE i \in 1..Len(key) : key[i] = "/"

\* "<p>" and "<proto>" of a well-formed key.
PortPart(key) == SubSeq(key, 1, SlashOf(key) - 1)

ProtoPart(key) == SubSeq(key, SlashOf(key) + 1, Len(key))

RECURSIVE Pow10(_)
Pow10(n) == IF n = 0 THEN 1 ELSE 10 * Pow10(n - 1)

RECURSIVE NumberFrom(_, _)
\* The number the decimal digits of s spell, summed from position i on.
NumberFrom(s, i) ==
    IF i > Len(s) THEN 0
    ELSE (CHOOSE d \in 0..9 : DigitSeq[d + 1] = s[i]) * Pow10(Len(s) - i)
         + NumberFrom(s, i + 1)

NumberOf(s) == NumberFrom(s, 1)

\* u is s in upper case.
IsUpperOf(u, s) ==
    /\ Len(u) = Len(s)
    /\ \A i \in 1..Len(s) :
          /\ u[i] \notin Range(LowerSeq)
          /\ LowerChar(u[i]) = LowerChar(s[i])

\* C14: collect_ports emits, for every well-formed key "<p>/<proto>" and in
\* the order of the map, an entry with targetPort the number p whatever the
\* host bindings, protocol proto in upper case and name "port-<p>-<proto>",
\* proto as in the key; with an empty binding list port is targetPort.
C14_EntryOfKey ==
    PortsCollected =>
        LET items == WellFormedSeq(arg)
        IN  /\ Len(ret.value) = Len(items)
            /\ \A k \in 1..Len(items) :
                  LET p == PortPart(items[k].key)
                      proto == ProtoPart(items[k].key)
                      entry == ret.value[k]
                  IN  /\ entry.targetPort = NumberOf(p)
                      /\ IsUpperOf(entry.protocol, proto)
                      /\ entry.name = <<"p", "o", "r", "t", "-">> \o p \o <<"-">> \o proto
                      /\ items[k].bindings = PyList(<<>>) => entry.port = entry.targetPort

\* A key of mixed case with a host binding, then a key with no binding.
C14_Witness ==
    /\ PortsCollected
    /\ Len(ItemsOf(arg)) = 2
    /\ ItemsOf(arg)[1] = [key |-> k_53_Udp, bindings |-> PyList(<<b_8080>>)]
    /\ ItemsOf(arg)[2] = [key |-> k_80_tcp, bindings |-> PyList(<<>>)]
    /\ ret.value[1] = [name |-> <<"p", "o", "r", "t", "-", "5", "3", "-", "U", "d", "p">>,
                       port |-> 8080, targetPort |-> 53, protocol |-> <<"U", "D", "P">>]
    /\ ret.value[2].port = 80 /\ ret.value[2].targetPort = 80

\* The first binding of the list declares a host port.
DeclaresHostPort(bindings) ==
    /\ bindings.t = "list"
    /\ bindings.v # <<>>
    /\ "HostPort" \in DOMAIN bindings.v[1]
    /\ NonEmptyStr(bindings.v[1]["HostPort"])

\* The binding list cut down to its first element.
FirstOnly(bindings) ==
    IF bindings.t = "list" /\ bindings.v # <<>> THEN PyList(<<bindings.v[1]>>) ELSE bindings

\* C15: the port of an entry is the number of the HostPort of the first
\* binding when that binding declares one, and the container port
\* otherwise; the entry is the one of the list cut down to its first
\* binding, so a HostPort of a later binding never changes it.
C15_FirstBindingOnly ==
    PortsCollected =>
        LET items == WellFormedSeq(arg)
        IN  /\ Len(ret.value) = Len(items)
            /\ \A k \in 1..Len(items) :
                  /\ ret.value[k].port =
                        IF DeclaresHostPort(items[k].bindings)
                        THEN NumberOf(items[k].bindings.v[1]["HostPort"].v)
                        ELSE NumberOf(PortPart(items[k].key))
                  /\ Ok(ret.value[k]) =
                        PortEntry(PortPart(items[k].key), ProtoPart(items[k].key),
                                  FirstOnly(items[k].bindings))

\* Only the second binding declares a host port: the port stays the container's.
C15_Witness ==
    /\ PortsCollected
    /\ Len(ItemsOf(arg)) = 1
    /\ ItemsOf(arg)[1] = [key |-> k_80_tcp, bindings |-> PyList(<<Binding(Absent), b_9090>>)]
    /\ ret.value[1].port = 80

(***************************************************************************)
(* Properties of the documents of build_k8s_documents.                     *)
(***************************************************************************)
ContainerIn(docs) == PodSpec(docs).containers[1]

\* C16: the Deployment's selector label app, its pod-template label app, its
\* metadata.name and the name of its single container are the same name,
\* and the selector app of the Service, when there is one, is that
\* pod-template label.
C16_OneNameLinksAll ==
    Built =>
        LET docs == ret.value
            label == docs[1].spec.template.metadata.labels.app
        IN  /\ Len(PodSpec(docs).containers) = 1
            /\ docs[1].spec.selector.matchLabels.app = label
            /\ docs[1].metadata.name = label
            /\ ContainerIn(docs).name = label
            /\ Len(docs) = 2 => docs[2].spec.selector.app = label

\* A Service whose selector is a name that the sanitizer changed.
C16_Witness ==
    /\ Built
    /\ Len(ret.value) = 2
    /\ ret.value[2].spec.selector.app = <<"m", "y", "-", "h", "o", "s", "t">>
    /\ ret.value[1].spec.template.metadata.labels.app = <<"m", "y", "-", "h", "o", "s", "t">>

\* Config of an input, {} when it is missing.
ConfigIn(container_details) ==
    IF Has(container_details, "Config") THEN container_details["Config"].v ELSE EmptyDict

HostnameGiven(container_details) ==
    /\ Has(ConfigIn(container_details), "Hostname")
    /\ NonEmptyStr(ConfigIn(container_details)["Hostname"])

\* C17 as claimed: the name is the sanitized Hostname when Hostname is
\* present and not empty, else the sanitized Name when Name is present and
\* not empty, else "app".
C17_NameOrApp ==
    Built =>
        LET details == arg.container_details
        IN  ret.value[1].metadata.name =
                IF HostnameGiven(details)
                THEN RefSanitize(ConfigIn(details)["Hostname"].v)
                ELSE IF Has(details, "Name") /\ NonEmptyStr(details["Name"])
                THEN RefSanitize(details["Name"].v)
                ELSE s_app

\* C17, amended: the name is the sanitized Hostname when Hostname is present
\* and not empty, else the sanitized Name when the key Name is present (an
\* empty Name sanitizes to "container"), else "app" when the key Name is
\* missing.
C17_NameOrAppWhenMissing ==
    Built =>
        LET details == arg.container_details
            name == ret.value[1].metadata.name
        IN  IF HostnameGiven(details)
            THEN name = RefSanitize(ConfigIn(details)["Hostname"].v)
            ELSE IF Has(details, "Name")
            THEN details["Name"].t = "str" /\ name = RefSanitize(details["Name"].v)
            ELSE name = s_app

\* No Hostname and an empty Name: the name is "container".
C17_Witness ==
    /\ Built
    /\ ~HostnameGiven(arg.container_details)
    /\ Has(arg.container_details, "Name")
    /\ arg.container_details["Name"] = PyStr(<<>>)
    /\ ret.value[1].metadata.name = s_container

NonEmptyList(d, key) == Has(d, key) /\ d[key].t = "list" /\ d[key].v # <<>>

MountsIn(container_details) ==
    IF NonEmptyList(container_details, "Mounts") THEN container_details["Mounts"].v ELSE <<>>

\* C18: the container has args if and only if Config.Cmd is a list that is
\* not empty, command likewise for Config.Entrypoint, env for at least one
\* env entry, volumeMounts for at least one mount and ports for at least
\* one derived port; the pod has volumes if and only if a volume was
\* emitted; no such key holds an empty list.
C18_NoEmptyOptionalKey ==
    Built =>
        LET details == arg.container_details
            container == ContainerIn(ret.value)
            pod == PodSpec(ret.value)
        IN  /\ "args" \in DOMAIN container <=> NonEmptyList(ConfigIn(details), "Cmd")
            /\ "command" \in DOMAIN container <=> NonEmptyList(ConfigIn(details), "Entrypoint")
            /\ "env" \in DOMAIN container <=> NonEmptyList(ConfigIn(details), "Env")
            /\ "volumeMounts" \in DOMAIN container <=> MountsIn(details) # <<>>
            /\ "ports" \in DOMAIN container <=> WellFormedItems(PortsOf(details)) # {}
            /\ "volumes" \in DOMAIN pod <=>
                  \E i \in 1..Len(MountsIn(details)) :
                      IsNotBind(MountsIn(details)[i]) \/ IsSourcedBind(MountsIn(details)[i])
            /\ "args" \in DOMAIN container => container.args.v # <<>>
            /\ "command" \in DOMAIN container => container.command.v # <<>>
            /\ \A key \in DOMAIN container \cap {"env", "volumeMounts", "ports"} :
                  container[key] # <<>>
            /\ "volumes" \in DOMAIN pod => pod.volumes # <<>>
            /\ DOMAIN container \subseteq
                  {"name", "image", "args", "command", "env", "volumeMounts", "ports"}
            /\ DOMAIN pod \subseteq {"containers", "volumes"}

\* Empty Cmd, Entrypoint and Env lists and a mount that gives no volume:
\* only volumeMounts is there.
C18_Witness ==
    /\ Built
    /\ Has(ConfigIn(arg.container_details), "Cmd")
    /\ ConfigIn(arg.container_details)["Cmd"] = PyList(<<>>)
    /\ ConfigIn(arg.container_details)["Env"] = PyList(<<>>)
    /\ MountsIn(arg.container_details) # <<>>
    /\ DOMAIN ContainerIn(ret.value) = {"name", "image", "volumeMounts"}
    /\ DOMAIN PodSpec(ret.value) = {"containers"}

\* C20: the Service is named "<Deployment name>-svc", is in the namespace of
\* the Deployment, which is the namespace argument, has type ClusterIP and
\* has as ports the derived port list in its order; the container's ports
\* has one entry {containerPort, protocol} per Service port, with that
\* port's targetPort and protocol.
C20_ServiceOfDeployment ==
    (Built /\ Len(ret.value) = 2) =>
        LET deployment == ret.value[1]
            service == ret.value[2]
            container_ports == ContainerIn(ret.value).ports
        IN  /\ service.metadata.name = deployment.metadata.name \o <<"-", "s", "v", "c">>
            /\ service.metadata.namespace = arg.namespace
            /\ deployment.metadata.namespace = arg.namespace
            /\ service.spec.type = "ClusterIP"
            /\ service.spec.ports = CollectPorts(PortsOf(arg.container_details)).value
            /\ Len(container_ports) = Len(service.spec.ports)
            /\ \A i \in 1..Len(service.spec.ports) :
                  container_ports[i] =
                      [containerPort |-> service.spec.ports[i].targetPort,
                       protocol |-> service.spec.ports[i].protocol]

\* Two ports in the namespace "prod", one with a host port that differs
\* from the container port.
C20_Witness ==
    /\ Built
    /\ Len(ret.value) = 2
    /\ arg.namespace = <<"p", "r", "o", "d">>
    /\ Len(ret.value[2].spec.ports) = 2
    /\ ret.value[2].spec.ports[2].port = 8080
    /\ ContainerIn(ret.value).ports[2].containerPort = 80
    /\ ContainerIn(ret.value).ports[1].containerPort = 53

(***************************************************************************)
(* Properties of conversions that run at the same time.                    *)
(***************************************************************************)
Finished(t) == frame[t].pc \in {"done", "raised"}

\* C21: conversions are independent and never mutate their input: in any
\* interleaving of build_k8s_documents calls, each call ends as it ends when
\* it runs alone on the document it was given (the same documents, or the
\* same exception), and from the call to its end the document is as given.
\* This holds of calls on different documents and of calls handed the same
\* document alike.
C21_IndependentConversions ==
    \A t \in Threads :
        frame[t].pc # "idle" =>
            /\ heap[frame[t].ref] = frame[t].given
            /\ Finished(t) =>
                  frame[t].result = BuildK8sDocuments(frame[t].given, frame[t].namespace)

\* Two calls on different documents have ended, one having run a statement
\* while the other was under way; the first returned a Deployment and a
\* Service.
C21_Witness ==
    /\ Finished(1) /\ Finished(2)
    /\ interleaved
    /\ frame[1].given # frame[2].given
    /\ frame[1].pc = "done" /\ Len(frame[1].result.value) = 2

(***************************************************************************)
(* Properties of PortainerClient.                                          *)
(***************************************************************************)
s_endpoints_path == <<"/", "a", "p", "i", "/", "e", "n", "d", "p", "o", "i", "n", "t", "s">>

s_environments_path == <<"/", "a", "p", "i", "/", "e", "n", "v", "i", "r", "o", "n", "m", "e", "n", "t", "s">>

\* PortainerClient(base_url, api_key=key): a URL with its scheme, a key that
\* is not empty, and nothing else.
OnlyUrlAndKey ==
    /\ op = "PortainerClient"
    /\ arg.endpoint_id = Absent /\ arg.username = Absent /\ arg.password = Absent
    /\ arg.base_url # Absent
    /\ StartsWith(arg.base_url.v, s_http) \/ StartsWith(arg.base_url.v, s_https)
    /\ arg.api_key # Absent /\ Truthy(arg.api_key)

\* GET <base>/<path> with params limit=100 and timeout 15.
ListRequest(path) == Request("GET", arg.self.base_url \o path, [limit |-> 100], NoValue, 15)

\* C22: a PortainerClient is built from a base URL and an API key alone, and
\* its get_endpoints() first GETs <base>/api/endpoints with params limit=100
\* and timeout 15, returning that list on HTTP 200; on a 404 it next GETs
\* <base>/api/environments with the same params and returns that list.
C22_GetEndpoints ==
    /\ OnlyUrlAndKey => ret.status = "ok"
    /\ op = "get_endpoints" =>
          LET first == arg.answers[1]
              second == arg.answers[2]
          IN  /\ sent # <<>> /\ sent[1] = ListRequest(s_endpoints_path)
              /\ first.status_code = 200 =>
                    /\ sent = <<ListRequest(s_endpoints_path)>>
                    /\ ret = Ok(first.json)
              /\ first.status_code = 404 =>
                    /\ sent = <<ListRequest(s_endpoints_path),
                               ListRequest(s_environments_path)>>
                    /\ second.status_code = 200 => ret = Ok(second.json)

\* resolve_container_id was called and the server answered with the listing.
Listed == op = "resolve_container_id" /\ arg.answer.status_code = 200

NamesOf(container) == IF Has(container, "Names") THEN container["Names"].v ELSE <<>>

\* The name without its leading '/'.
RECURSIVE Unslashed(_)
Unslashed(name) ==
    IF name # <<>> /\ name[1] = "/" THEN Unslashed(Tail(name)) ELSE name

IsPrefix(p, s) == Len(p) <= Len(s) /\ \A i \in 1..Len(p) : s[i] = p[i]

IsSuffix(p, s) ==
    Len(p) <= Len(s) /\ \A i \in 1..Len(p) : s[Len(s) - Len(p) + i] = p[i]

Contains(s, part) ==
    \E i \in 0..(Len(s) - Len(part)) : \A j \in 1..Len(part) : s[i + j] = part[j]

MatchesById(container, ref) == IsPrefix(ref, container["Id"].v)

MatchesByName(container, ref) ==
    \E i \in 1..Len(NamesOf(container)) : Unslashed(NamesOf(container)[i]) = ref

\* The positions in the listing of the containers that match the reference.
Matching(listing, ref) ==
    {i \in 1..Len(listing) : MatchesById(listing[i], ref) \/ MatchesByName(listing[i], ref)}

\* The ids of the containers at the positions of M from i on, in the order
\* of the listing, separated by ", ".
RECURSIVE IdsListed(_, _, _)
IdsListed(listing, M, i) ==
    IF i > Len(listing) THEN <<>>
    ELSE IF i \notin M THEN IdsListed(listing, M, i + 1)
    ELSE IF \E j \in M : j > i
    THEN listing[i]["Id"].v \o <<",", " ">> \o IdsListed(listing, M, i + 1)
    ELSE listing[i]["Id"].v

\* C23: resolve_container_id returns a container id if and only if exactly
\* one container of the listing matches the reference (its Id starts with the
\* reference, or one of its Names without the leading '/' equals it; matching
\* both ways counts once), and the id is that container's; with no match it
\* fails with an error that names the reference and the endpoint, and with
\* more than one with an error that lists the ids of all the matches.
C23_ResolvesIffOneMatch ==
    Listed =>
        LET listing == arg.answer.json
            ref == arg.container_ref
            M == Matching(listing, ref)
        IN  /\ ret.status = "ok" <=> Cardinality(M) = 1
            /\ ret.status = "ok" => \E i \in M : ret.value = listing[i]["Id"].v
            /\ M = {} =>
                  /\ ret.status = "raise" /\ ret.exc = "RuntimeError"
                  /\ Contains(ret.message, <<"'">> \o ref \o <<"'">>)
                  /\ IsSuffix(<<"e", "n", "d", "p", "o", "i", "n", "t", " ">>
                              \o Format(arg.self.endpoint_id), ret.message)
            /\ Cardinality(M) > 1 =>
                  /\ ret.status = "raise" /\ ret.exc = "RuntimeError"
                  /\ Contains(ret.message, <<"'">> \o ref \o <<"'">>)
                  /\ IsSuffix(<<" ">> \o IdsListed(listing, M, 1), ret.message)

\* Of two containers one matches the reference, by its Id and by its name at
\* once, and its id is returned.
C23_Witness ==
    /\ Listed
    /\ Len(arg.answer.json) = MaxContainers
    /\ arg.container_ref # <<>>
    /\ \E i \in 1..Len(arg.answer.json) :
          /\ MatchesById(arg.answer.json[i], arg.container_ref)
          /\ MatchesByName(arg.answer.json[i], arg.container_ref)
          /\ ret = Ok(arg.answer.json[i]["Id"].v)

====
